---- MODULE Spec2Model ----
(***************************************************************************)
(* Mobility / handover step loops of the mininet-eval scripts.             *)
(*                                                                         *)
(* Every script is an independent program; a behaviour of this module is   *)
(* one run of one of them, chosen by `script` in Init:                     *)
(*   "q6"     q6/script.py   adjust_link_quality                           *)
(*   "q7"     q7/script.py   simulate_mobility                             *)
(*   "q8"     q8/script.py   simulate_mobility (+ throughput monitor)      *)
(*   "q8b"    q8/script2.py  simulate_mobility, stop_monitoring,           *)
(*                           visualize_throughput                          *)
(*   "q10"    q10/script.py  topology (quality reduction loop)             *)
(*   "q11"    q11/script.py  topology (three-AP mobility loop)             *)
(*   "rule11" the decision block of q11 (lines 165-208) driven by          *)
(*            arbitrary per-step scores instead of the distance model      *)
(*                                                                         *)
(* Arithmetic is exact fixed point.  q11 positions are multiples of 1/3,   *)
(* q10/q11 scores are kept in units of 1/300 point (thirds for the model,  *)
(* hundredths for the literal scores 64, 65, 65.01); the linear model of   *)
(* q6/q7/q8 is kept in twentieths (position = step/20).                    *)
(***************************************************************************)
EXTENDS Integers, Sequences, FiniteSets, TLC

VARIABLES
    script,             \* which program this behaviour runs
    pc,                 \* "loop" | "stop" | "join" | "visualize" | "done"
    step,               \* loop variable `step` of the last iteration begun
    route,              \* the station's default route: "ap1" | "ap2" | "ap3" | "none"
    \* ---- q11 --------------------------------------------------------
    current_ap,         \* q11 current_ap: 1 | 2 | 3
    ap_quality,         \* q11 ap1_quality, ap2_quality, ap3_quality of the step
    handover_positions, \* q11 list of (current_position, from, to)
    applied,            \* q11 netem parameters last pushed per link
    ref_ap,             \* current_ap of the replay of the same positions
    ref_positions,      \* handover_positions of the replay
    \* ---- q6 ---------------------------------------------------------
    current_link,       \* q6 current_link: 1 | 2
    ping_output,        \* q6 lines written to /tmp/ping_output.txt after the header
    \* ---- q7 / q8 ----------------------------------------------------
    handover_events,    \* lines of handover_events.txt after the two header lines
    handover_performed, \* q8/script2 handover_performed
    drift,              \* tenths of a second the wall clock is ahead of 1 s per step
    aborted,            \* the try block around the loop caught an exception
    ref_route,          \* default route of the replay of the same positions
    ref_events,         \* handover_events.txt of the replay
    \* ---- q8 ThroughputMonitor ---------------------------------------
    running,            \* self.running
    monitor_pc,         \* monitor thread: "none" | "check" | "sample" | "exited"
    throughput_data,    \* number of tuples in self.throughput_data
    throughput_file,    \* throughput_data.txt after the header: number of lines
                        \* and the sum of their throughput column (tenths of Mbps)
    \* ---- q10 --------------------------------------------------------
    current_ap10,       \* q10 current_ap: "s1" | "s2" | "None"
    ap1_qual,           \* q10 ap1_qual, last measured quality via AP1
    ap2_qual,           \* q10 ap2_qual, last measured quality via AP2
    handover_occurred,  \* q10 handover_occurred
    handover_step,      \* q10 handover_step
    metrics10,          \* q10 times/ap1_quality/ap2_quality/connected_ap: one
                        \* record per appended sample (the step it was taken
                        \* in and the AP recorded as connected)
    errors10,           \* q10 iterations that ended in the except branch
    source_failed,      \* q10: every measurement made so far has failed
    raised10,           \* q10: the statement that raised in the last iteration
    \* ---- q9 ---------------------------------------------------------
    now,                \* q9: whole seconds since StreamingMonitor.start_time
    handover_done,      \* q9 simulate_mobility: handover_done
    monitor,            \* q9 StreamingMonitor: running, the thread's position,
                        \* len(metrics), handover_occurred, handover_time,
                        \* handover_position (hundredths)
    \* ---- analysis of a results file (q7 analyze_results, q8 visualize_throughput)
    results_file,       \* what the file read back holds when the analysis starts
    analysis,           \* what the analysis did with it
    \* ---- q7/script2 create_visualization, grouping of the lost packets
    lost_packets,       \* sorted sequence numbers of the lost packets
    lost_regions,       \* lost_regions: (start, end) pairs found so far
    grouping,           \* the loop's i, start and end, and whether it stands at
                        \* the outer or at the inner while
    \* ---- q8/script2 record_event against _generate_realistic_throughput
    tm                  \* the ThroughputMonitor statement by statement:
                        \* start_time, handover_occurred, handover_time, where
                        \* the main thread and the monitor thread stand, what
                        \* the monitor thread has read and computed

v11 == <<current_ap, ap_quality, handover_positions, applied, ref_ap, ref_positions>>
v6 == <<current_link, ping_output>>
v7 == <<handover_events, handover_performed, drift, aborted, ref_route, ref_events>>

vmon == <<running, monitor_pc, throughput_data, throughput_file>>
v9 == <<now, handover_done, monitor>>
vana == <<results_file, analysis>>
vgrp == <<lost_packets, lost_regions, grouping>>
v10 == <<current_ap10, ap1_qual, ap2_qual, handover_occurred, handover_step,
         metrics10, errors10, source_failed, raised10>>

vars == <<script, pc, step, route, v11, v6, v7, vmon, v10, v9, vana, vgrp, tm>>

----------------------------------------------------------------------------
(* Helpers *)

Abs(x) == IF x < 0 THEN -x ELSE x
Max(a, b) == IF a >= b THEN a ELSE b
Min(a, b) == IF a <= b THEN a ELSE b
Last(s) == s[Len(s)]
\* n/d rounded to the nearest integer (n >= 0, d > 0) as a "%.0f" format does;
\* halves go to the even neighbour
RoundDiv(n, d) ==
    LET q == n \div d
        r == n % d
    IN  IF 2 * r < d THEN q
        ELSE IF 2 * r > d THEN q + 1
        ELSE IF q % 2 = 0 THEN q ELSE q + 1

\* one quality point in score units (1/300 point)
Unit == 3 * 100
Pts(p) == p * Unit
\* a score given in hundredths of a point (6501 = 65.01)
Cents(c) == c * 3

----------------------------------------------------------------------------
(* q11: three access points, distance model *)

total_steps == 30
HYSTERESIS == 15
\* reference positions of AP1, AP2, AP3
ApRef == <<20, 70, 120>>

\* Position3 for a path of 130 m instead of 140 m
PositionTo130(s) == s * 13

\* current_position = step * (140 / total_steps), in thirds
Position3(s) == s * 14
\* dist_to_ap = abs(current_position - ref), in thirds
Dist3(s, ap) == Abs(Position3(s) - 3 * ApRef[ap])
\* Delay3 without the cap of 100 ms
DelayUncapped(s, ap) == Max(3 * 5, 3 * 5 + Dist3(s, ap))

\* delay_ap = max(5, min(100, 5 + dist)), in thirds of a millisecond
Delay3(s, ap) == Max(3 * 5, Min(3 * 100, 3 * 5 + Dist3(s, ap)))
\* loss_ap = max(0, min(20, dist / 5)), in fifteenths of a percent
Loss15(s, ap) == Max(0, Min(15 * 20, Dist3(s, ap)))
\* ap_quality = 100 - delay - loss * 5, in score units
LinkQuality(delay3, loss15) ==
    Pts(100) - delay3 * (Unit \div 3) - loss15 * 5 * (Unit \div 15)
Quality11(s) == [ap \in 1..3 |-> LinkQuality(Delay3(s, ap), Loss15(s, ap))]

\* the netem arguments of the tc command: delay "%.0f" ms, loss "%.1f" %
\* (the loss is kept in tenths of a percent)
NetemArgs(s, ap) ==
    [delay |-> RoundDiv(Delay3(s, ap), 3), loss10 |-> RoundDiv(Loss15(s, ap) * 10, 15)]

\* the try block of the step: the three links are updated in order; an
\* exception after nOk successful updates leaves the remaining links alone
UpdateLinks(old, s, nOk) ==
    [ap \in 1..3 |-> IF ap <= nOk THEN NetemArgs(s, ap) ELSE old[ap]]

\* SelectBest with ">=" in place of ">": a challenger exactly 15 points
\* better already wins
SelectBestAtMargin(cur, q) ==
    IF cur = 1 THEN
        IF q[2] >= q[1] + Pts(HYSTERESIS) THEN 2
        ELSE IF q[3] >= q[1] + Pts(HYSTERESIS) THEN 3
        ELSE cur
    ELSE IF cur = 2 THEN
        IF q[1] >= q[2] + Pts(HYSTERESIS) THEN 1
        ELSE IF q[3] >= q[2] + Pts(HYSTERESIS) THEN 3
        ELSE cur
    ELSE
        IF q[1] >= q[3] + Pts(HYSTERESIS) THEN 1
        ELSE IF q[2] >= q[3] + Pts(HYSTERESIS) THEN 2
        ELSE cur

\* SelectBest with the margin applied on the way out of AP1 only: AP2 and
\* AP3 are left as soon as another AP scores higher
SelectBestOneWay(cur, q) ==
    IF cur = 1 THEN
        IF q[2] > q[1] + Pts(HYSTERESIS) THEN 2
        ELSE IF q[3] > q[1] + Pts(HYSTERESIS) THEN 3
        ELSE cur
    ELSE IF cur = 2 THEN
        IF q[1] > q[2] THEN 1
        ELSE IF q[3] > q[2] THEN 3
        ELSE cur
    ELSE
        IF q[1] > q[3] THEN 1
        ELSE IF q[2] > q[3] THEN 2
        ELSE cur

\* SelectBest taking the challenger with the higher score when both beat the
\* active AP by more than the margin
SelectBestHighest(cur, q) ==
    LET others == (1..3) \ {cur}
        ok == {b \in others : q[b] > q[cur] + Pts(HYSTERESIS)}
    IN  IF ok = {} THEN cur
        ELSE CHOOSE b \in ok : \A c \in ok : q[c] < q[b] \/ (q[c] = q[b] /\ b <= c)

\* "Select best AP based on quality (with hysteresis)"
SelectBest(cur, q) ==
    IF cur = 1 THEN
        IF q[2] > q[1] + Pts(HYSTERESIS) THEN 2
        ELSE IF q[3] > q[1] + Pts(HYSTERESIS) THEN 3
        ELSE cur
    ELSE IF cur = 2 THEN
        IF q[1] > q[2] + Pts(HYSTERESIS) THEN 1
        ELSE IF q[3] > q[2] + Pts(HYSTERESIS) THEN 3
        ELSE cur
    ELSE IF cur = 3 THEN
        IF q[1] > q[3] + Pts(HYSTERESIS) THEN 1
        ELSE IF q[2] > q[3] + Pts(HYSTERESIS) THEN 2
        ELSE cur
    ELSE cur

\* LogHandover without the test: a record is appended at every step
LogEveryStep(log, s, cur, best) == Append(log, <<Position3(s), cur, best>>)

\* "Log handover if it occurred": the log after the decision of step s
LogHandover(log, s, cur, best) ==
    IF best # cur THEN Append(log, <<Position3(s), cur, best>>) ELSE log

\* "Update routing based on best AP"
RouteFor(best) == IF best = 1 THEN "ap1" ELSE IF best = 2 THEN "ap2" ELSE "ap3"

\* Decide11 placed inside the try block: a failed tc command skips it
DecideInsideTry(cur, log, s, q, nOk) ==
    LET best == IF nOk = 3 THEN SelectBest(cur, q) ELSE cur
    IN  [ap |-> best, log |-> LogHandover(log, s, cur, best), route |-> RouteFor(best)]

\* The decision part of one iteration (lines 165-208) for a run whose tc
\* commands succeeded on the first nOk links: the result does not read nOk.
Decide11(cur, log, s, q, nOk) ==
    LET best == SelectBest(cur, q)
    IN  [ap |-> best, log |-> LogHandover(log, s, cur, best), route |-> RouteFor(best)]

\* One iteration of the loop body with scores q.  The replay (ref_*) runs
\* the same iteration over the same position with every tc command
\* succeeding.
Q11Body(s, q, nOk) ==
    LET d == Decide11(current_ap, handover_positions, s, q, nOk)
        r == Decide11(ref_ap, ref_positions, s, q, 3)
    IN  /\ step' = s
        /\ applied' = UpdateLinks(applied, s, nOk)
        /\ ap_quality' = q
        /\ current_ap' = d.ap
        /\ handover_positions' = d.log
        /\ route' = d.route
        /\ ref_ap' = r.ap
        /\ ref_positions' = r.log
        /\ UNCHANGED <<script, pc, v6, v7, vmon, v10, v9, vana, vgrp, tm>>

Q11Step ==
    /\ script = "q11" /\ pc = "loop" /\ step < total_steps
    /\ \E nOk \in 0..3 : Q11Body(step + 1, Quality11(step + 1), nOk)

Q11Finish ==
    /\ script = "q11" /\ pc = "loop" /\ step = total_steps
    /\ pc' = "done"
    /\ UNCHANGED <<script, step, route, v11, v6, v7, vmon, v10, v9, vana, vgrp, tm>>

----------------------------------------------------------------------------
(* The q11 decision block on arbitrary scores *)

MaxRuleSteps == 3
ScoreVals == {Cents(5000), Cents(6400), Cents(6500), Cents(6501), Cents(8100)}

RuleStep11 ==
    /\ script = "rule11" /\ pc = "loop" /\ step < MaxRuleSteps
    /\ \E q \in [1..3 -> ScoreVals] : Q11Body(step + 1, q, 3)

----------------------------------------------------------------------------
(* q6: two access points, linear model, adjust_link_quality *)

step_count == 20

\* Position20 with the division taken over one step more than configured
PositionShort(s, total) == (s * 20) \div (total + 1)

\* position = step / step_count, in twentieths
Position20(s, total) == (s * 20) \div total

\* Link parameters at position p (twentieths): bandwidth in twentieths of a
\* Mbit, delay in twentieths of a millisecond, loss in twentieths of a percent
Ap1Bw6(p) == Max(20 * 1, 20 * 20 - p * 19)
Ap1Delay6(p) == 20 * 1 + p * 19
Ap1Loss6(p) == Min(20 * 99, p * 50)
Ap2Bw6(p) == Max(20 * 1, 20 * 1 + p * 19)
Ap2Delay6(p) == 20 * 20 - p * 19
Ap2Loss6(p) == Min(20 * 99, 20 * 50 - p * 50)

\* "Determine if handover should occur (when AP2 becomes better than AP1)"
ShouldUseAp2(p) == Ap2Bw6(p) > Ap1Bw6(p) /\ Ap2Loss6(p) < Ap1Loss6(p)

\* the link the station is on after the handover branches of the step
NextLink6(link, p) ==
    IF ShouldUseAp2(p) /\ link = 1 THEN 2
    ELSE IF ~ShouldUseAp2(p) /\ link = 2 THEN 1
    ELSE link

\* the lines the step writes: a handover line when the link changed, then
\* the ping line (the measured RTT and loss columns are not kept)
HandoverLine6(s, link) ==
    [step |-> s, text |-> IF link = 2 THEN "Handover to AP2" ELSE "Handover to AP1"]
PingLine6(s, link) == [step |-> s, text |-> IF link = 2 THEN "AP2" ELSE "AP1"]
StepLines6(s, old, new) ==
    IF new # old THEN <<HandoverLine6(s, new), PingLine6(s, new)>>
    ELSE <<PingLine6(s, new)>>

Q6Step ==
    /\ script = "q6" /\ pc = "loop" /\ step < step_count
    /\ LET s == step + 1
           p == Position20(s, step_count)
           new == NextLink6(current_link, p)
       IN  /\ step' = s
           /\ current_link' = new
           \* "ip route del default" / "ip route add default via ..." run
           \* only in a handover branch
           /\ route' = IF new # current_link THEN RouteFor(new) ELSE route
           /\ ping_output' = ping_output \o StepLines6(s, current_link, new)
    /\ UNCHANGED <<script, pc, v11, v7, vmon, v10, v9, vana, vgrp, tm>>

\* a command of the loop body raises: adjust_link_quality has no handler,
\* the exception ends the loop and is logged by topology()
Q6Error ==
    /\ script = "q6" /\ pc = "loop" /\ step < step_count
    /\ aborted' = TRUE
    /\ pc' = "done"
    /\ UNCHANGED <<script, step, route, v11, v6, handover_events, handover_performed,
                   drift, ref_route, ref_events, vmon, v10, v9, vana, vgrp, tm>>

Q6Finish ==
    /\ script = "q6" /\ pc = "loop" /\ step = step_count
    /\ pc' = "done"
    /\ UNCHANGED <<script, step, route, v11, v6, v7, vmon, v10, v9, vana, vgrp, tm>>

----------------------------------------------------------------------------
(* q7, q8: two access points, linear model, simulate_mobility *)

duration == 20
MaxDrift == 1

Ap1Bw7(p) == Max(20 * 1, 20 * 20 - p * 19)
Ap1Delay7(p) == 20 * 2 + p * 18
Ap1Loss7(p) == Min(20 * 80, p * 50)
\* Ap2Bw7 with a slope of 18 Mbit, as the delay has
Ap2BwSlope18(p) == Max(20 * 1, 20 * 1 + p * 18)

Ap2Bw7(p) == Max(20 * 1, 20 * 1 + p * 19)
Ap2Delay7(p) == 20 * 20 - p * 18
Ap2Loss7(p) == Min(20 * 80, 20 * 50 - p * 50)

\* "ip route del default": removes the default route unless the command fails
RouteDel(rt, ok) == IF ok THEN "none" ELSE rt
\* "ip route add default via gw": fails when a default route is still present
RouteAdd(rt, gw, ok) == IF ok /\ rt = "none" THEN gw ELSE rt

\* elapsed = time.time() - start_time at step s, in tenths of a second:
\* one second of sleep per completed step plus the accumulated drift
Elapsed10(s, d) == 10 * s + d
\* the line appended to handover_events.txt: "%.1f | %.2f | Handover ..."
EventLine(s, d) ==
    [elapsed |-> Elapsed10(s, d), position |-> 5 * Position20(s, duration),
     event |-> "Handover from AP1 to AP2"]

\* q7/script.py: "Perform handover if needed"
HandoverDue7(s, rt) == 2 * Position20(s, duration) > 20 /\ rt = "ap1"
Handover7(rt, log, s, d, delOk, addOk) ==
    IF HandoverDue7(s, rt)
    THEN [route |-> RouteAdd(RouteDel(rt, delOk), "ap2", addOk),
          log |-> Append(log, EventLine(s, d))]
    ELSE [route |-> rt, log |-> log]

\* q8/script.py: the same test, followed by monitor.record_event
HandoverDue8(s, rt) == 2 * Position20(s, duration) > 20 /\ rt = "ap1"
Handover8(rt, log, s, d, delOk, addOk) ==
    IF HandoverDue8(s, rt)
    THEN [route |-> RouteAdd(RouteDel(rt, delOk), "ap2", addOk),
          log |-> Append(log, EventLine(s, d))]
    ELSE [route |-> rt, log |-> log]

\* q8/script2.py: "Perform handover only once when position > 0.5"
HandoverDue8b(s, rt, performed) ==
    ~performed /\ 2 * Position20(s, duration) > 20 /\ rt = "ap1"
Handover8b(rt, log, performed, s, d, delOk, addOk) ==
    IF HandoverDue8b(s, rt, performed)
    THEN [route |-> RouteAdd(RouteDel(rt, delOk), "ap2", addOk),
          log |-> Append(log, EventLine(s, d)), performed |-> TRUE]
    ELSE [route |-> rt, log |-> log, performed |-> performed]

\* The wall clock is read (time.time()) only when a handover line is written:
\* the drift accumulated since the last reading is chosen there.
ClockDrift(reads) == IF reads THEN drift..MaxDrift ELSE {drift}

Q7Step ==
    /\ script = "q7" /\ pc = "loop" /\ step < duration
    /\ \E d \in ClockDrift(HandoverDue7(step + 1, route)), delOk \in BOOLEAN, addOk \in BOOLEAN :
         LET s == step + 1
             h == Handover7(route, handover_events, s, d, delOk, addOk)
             r == Handover7(ref_route, ref_events, s, 0, TRUE, TRUE)
         IN  /\ step' = s
             /\ drift' = d
             /\ route' = h.route
             /\ handover_events' = h.log
             /\ ref_route' = r.route
             /\ ref_events' = r.log
    /\ UNCHANGED <<script, pc, v11, v6, handover_performed, aborted, vmon, v10, v9, vana, vgrp, tm>>

\* record_event: one line with throughput 0.0 appended to throughput_data.txt
RecordEvent(file) == [n |-> file.n + 1, sum |-> file.sum]

Q8Step ==
    /\ script = "q8" /\ pc = "loop" /\ step < duration
    /\ \E d \in ClockDrift(HandoverDue8(step + 1, route)), delOk \in BOOLEAN, addOk \in BOOLEAN :
         LET s == step + 1
             h == Handover8(route, handover_events, s, d, delOk, addOk)
             r == Handover8(ref_route, ref_events, s, 0, TRUE, TRUE)
         IN  /\ step' = s
             /\ drift' = d
             /\ route' = h.route
             /\ handover_events' = h.log
             /\ throughput_file' = IF HandoverDue8(s, route)
                                   THEN RecordEvent(throughput_file)
                                   ELSE throughput_file
             /\ ref_route' = r.route
             /\ ref_events' = r.log
    /\ UNCHANGED <<script, pc, v11, v6, handover_performed, aborted, running, monitor_pc, throughput_data, v10, v9, vana, vgrp, tm>>

Q8bStep ==
    /\ script = "q8b" /\ pc = "loop" /\ step < duration
    /\ \E d \in ClockDrift(HandoverDue8b(step + 1, route, handover_performed)), delOk \in BOOLEAN, addOk \in BOOLEAN :
         LET s == step + 1
             h == Handover8b(route, handover_events, handover_performed, s, d, delOk, addOk)
             r == Handover8b(ref_route, ref_events, Len(ref_events) > 0, s, 0, TRUE, TRUE)
         IN  /\ step' = s
             /\ drift' = d
             /\ route' = h.route
             /\ handover_events' = h.log
             /\ handover_performed' = h.performed
             /\ throughput_file' = IF HandoverDue8b(s, route, handover_performed)
                                   THEN RecordEvent(throughput_file)
                                   ELSE throughput_file
             /\ ref_route' = r.route
             /\ ref_events' = r.log
    /\ UNCHANGED <<script, pc, v11, v6, aborted, running, monitor_pc, throughput_data, v10, v9, vana, vgrp, tm>>

\* what topology() does after simulate_mobility returns: q7 goes to the CLI,
\* q8 sleeps and calls monitor.stop_monitoring()
AfterLoop(sc) == IF sc = "q7" THEN "done" ELSE "stop"

\* "except Exception as e" around the loop: a raising command ends the loop
MobilityError ==
    /\ script \in {"q7", "q8", "q8b"} /\ pc = "loop" /\ step < duration
    /\ aborted' = TRUE
    /\ pc' = AfterLoop(script)
    /\ UNCHANGED <<script, step, route, v11, v6, handover_events, handover_performed,
                   drift, ref_route, ref_events, vmon, v10, v9, vana, vgrp, tm>>

MobilityFinish ==
    /\ script \in {"q7", "q8", "q8b"} /\ pc = "loop" /\ step = duration
    /\ pc' = AfterLoop(script)
    /\ UNCHANGED <<script, step, route, v11, v6, v7, vmon, v10, v9, vana, vgrp, tm>>

----------------------------------------------------------------------------
(* The linear quality models of q6 and of q7/q8 on arbitrary positions *)

\* how far outside [0, 1] the positions tried lie, in twentieths
MaxOutside == 4
PosVals == (0 - MaxOutside)..(20 + MaxOutside)

\* bandwidth, delay and loss of AP1 and AP2 at position p (twentieths) as
\* the loop body of q6 ("lin6") and of q7/q8 ("lin7") computes them
LinearModel(sc, p) ==
    IF sc = "lin6"
    THEN <<[bw |-> Ap1Bw6(p), delay |-> Ap1Delay6(p), loss |-> Ap1Loss6(p)],
           [bw |-> Ap2Bw6(p), delay |-> Ap2Delay6(p), loss |-> Ap2Loss6(p)]>>
    ELSE <<[bw |-> Ap1Bw7(p), delay |-> Ap1Delay7(p), loss |-> Ap1Loss7(p)],
           [bw |-> Ap2Bw7(p), delay |-> Ap2Delay7(p), loss |-> Ap2Loss7(p)]>>

\* the model is evaluated at position p; `step` holds p and `applied` the
\* parameters computed for the two links
LinearEval ==
    /\ script \in {"lin6", "lin7"} /\ pc = "loop"
    /\ \E p \in PosVals :
         /\ step' = p
         /\ applied' = LinearModel(script, p)
    /\ UNCHANGED <<script, pc, route, current_ap, ap_quality, handover_positions,
                   ref_ap, ref_positions, v6, v7, vmon, v10, v9, vana, vgrp, tm>>

----------------------------------------------------------------------------
(* q8: ThroughputMonitor thread, stop_monitoring, visualize_throughput *)

\* lines the monitor thread appends at most in a run of q8/script2.py (the
\* test of _ensure_realistic_data needs more than 20) and of q8/script.py
MaxSamples == 22
MaxSamples8 == 2
SampleCap(sc) == IF sc = "q8" THEN MaxSamples8 ELSE MaxSamples
\* throughput a sample line can carry, in tenths of Mbps.  q8/script2.py
\* never writes less than max(0.1, ...).  q8/script.py only tests whether a
\* line was parsed at all, so its lines are counted and their throughput
\* (0.0 when netstat finds no connection) is not kept.
SampleTput(sc) == IF sc = "q8" THEN {0} ELSE {1, 185}
\* The file is kept as its number of lines and the sum of the throughput
\* column.  A sum above SumCap already decides every test made on it (more
\* than 1.0 Mbps on average over any number of lines the file can hold), so
\* larger sums are kept as SumCap.
SumCap == 10 * (MaxSamples + duration + 1) + 1
AppendLine(file, tp) == [n |-> file.n + 1, sum |-> Min(SumCap, file.sum + tp)]

\* MonitorCheck that does not look at the flag
MonitorCheckBlind ==
    /\ monitor_pc = "check"
    /\ monitor_pc' = "sample"
    /\ UNCHANGED <<script, pc, step, route, v11, v6, v7, running, throughput_data, throughput_file, v10, v9, vana, vgrp, tm>>

\* "while self.running:" evaluated by the monitor thread
MonitorCheck ==
    /\ monitor_pc = "check"
    /\ monitor_pc' = IF running THEN "sample" ELSE "exited"
    /\ UNCHANGED <<script, pc, step, route, v11, v6, v7, running, throughput_data, throughput_file, v10, v9, vana, vgrp, tm>>

\* the body of one iteration: one line appended, then time.sleep(0.5)
MonitorSample ==
    /\ monitor_pc = "sample"
    /\ throughput_data < SampleCap(script)
    /\ throughput_data' = throughput_data + 1
    /\ \E tp \in SampleTput(script) :
         throughput_file' = AppendLine(throughput_file, tp)
    /\ monitor_pc' = "check"
    /\ UNCHANGED <<script, pc, step, route, v11, v6, v7, running, v10, v9, vana, vgrp, tm>>

\* stop_monitoring up to the join: self.running = False
StopMonitoring ==
    /\ pc = "stop"
    /\ running' = FALSE
    /\ pc' = "join"
    /\ UNCHANGED <<script, step, route, v11, v6, v7, monitor_pc, throughput_data, throughput_file, v10, v9, vana, vgrp, tm>>

\* the files create_realistic_throughput_data writes: 160 samples and the
\* handover line in throughput_data.txt, one line "11.2 | 0.56 | ..." in
\* handover_events.txt
RealisticSamples == 160
RealisticFile == [n |-> RealisticSamples + 1, sum |-> SumCap]
RealisticEvents ==
    <<[elapsed |-> 112, position |-> 56, event |-> "Handover from AP1 to AP2"]>>
\* create_simple_throughput_data: 41 samples, "11.0 | 0.55 | ..."
SimpleFile == [n |-> 41 + 1, sum |-> SumCap]
SimpleEvents ==
    <<[elapsed |-> 110, position |-> 55, event |-> "Handover from AP1 to AP2"]>>
\* generate_synthetic_throughput_data of q8/script.py: 400 samples and the
\* handover line, throughput_data.txt only
SyntheticFile == [n |-> 400 + 1, sum |-> SumCap]

\* _ensure_realistic_data: more than 20 lines whose average exceeds 1.0 Mbps
MIN_LINES == 20
HasEnoughData(file) ==
    /\ file.n > MIN_LINES
    /\ file.sum > 10 * Max(1, file.n)

\* the handover log after _ensure_realistic_data; ioError is an exception
\* raised while the file is read
EnsureRealisticData(file, log, ioError) ==
    IF ioError \/ ~HasEnoughData(file)
    THEN [file |-> RealisticFile, log |-> RealisticEvents]
    ELSE [file |-> file, log |-> log]

\* the rest of stop_monitoring: join(timeout=2) returns when the thread has
\* exited or when the timeout expires; q8/script2.py then calls
\* _ensure_realistic_data
JoinReturns ==
    /\ pc = "join"
    /\ \E ioError \in BOOLEAN :
         LET e == EnsureRealisticData(throughput_file, handover_events, ioError)
         IN  IF script = "q8b"
             THEN /\ throughput_file' = e.file
                  /\ handover_events' = e.log
             ELSE UNCHANGED <<throughput_file, handover_events>>
    /\ pc' = "visualize"
    /\ UNCHANGED <<script, step, route, v11, v6, handover_performed, drift, aborted,
                   ref_route, ref_events, running, monitor_pc, throughput_data, v10, v9, vana, vgrp, tm>>

\* visualize_throughput of q8/script.py: no parsed line -> regenerate the
\* throughput file and retry
Visualize8(file) == IF file.n = 0 THEN SyntheticFile ELSE file

\* visualize_throughput of q8/script2.py: no parsed line or no positive
\* throughput -> create_realistic_throughput_data and retry; an exception
\* while plotting -> create_simple_throughput_data
Visualize8b(file, log, plotError) ==
    LET retry == file.n = 0 \/ file.sum <= 0
        f1 == IF retry THEN RealisticFile ELSE file
        l1 == IF retry THEN RealisticEvents ELSE log
    IN  IF plotError THEN [file |-> SimpleFile, log |-> SimpleEvents]
        ELSE [file |-> f1, log |-> l1]

VisualizeThroughput ==
    /\ pc = "visualize"
    /\ \E plotError \in BOOLEAN :
         LET v == Visualize8b(throughput_file, handover_events, plotError)
         IN  IF script = "q8b"
             THEN /\ throughput_file' = v.file
                  /\ handover_events' = v.log
             ELSE /\ throughput_file' = Visualize8(throughput_file)
                  /\ UNCHANGED handover_events
    /\ pc' = "done"
    /\ UNCHANGED <<script, step, route, v11, v6, handover_performed, drift, aborted,
                   ref_route, ref_events, running, monitor_pc, throughput_data, v10, v9, vana, vgrp, tm>>

----------------------------------------------------------------------------
(* q10: two access points, measured quality, topology() *)

STEPS10 == 20
HYSTERESIS10 == 15
SETTLE_STEPS == 5
MaxErrors10 == 1

\* get_current_ap: the interface named in the output of "ip route get"
CurrentApResults == {"s1", "s2", "None"}

\* What "ping -c 3 -q" printed, as check_connection_quality reads it: the
\* "% packet loss" field and the avg of "min/avg/max" are each "ok" (a
\* number: loss in percent, latency in hundredths of a millisecond), "none"
\* (the marker is not in the output) or "bad" (the marker is there but the
\* text before it is not a number)
PingOk(lat100, loss) == [lossKind |-> "ok", loss |-> loss, latKind |-> "ok", lat |-> lat100]
PingUnexpected == [lossKind |-> "none", loss |-> 0, latKind |-> "none", lat |-> 0]
PingMalformed == [lossKind |-> "bad", loss |-> 0, latKind |-> "ok", lat |-> 25000]
\* the measurement produced no usable figure
FailedOutput(o) == o.lossKind # "ok" \/ o.latKind # "ok"

\* check_connection_quality on output o, in score units
CheckConnectionQuality(o) ==
    IF o.lossKind = "bad" \/ o.latKind = "bad" THEN 0
    ELSE LET packet_loss == IF o.lossKind = "ok" THEN o.loss ELSE 100
             lat100 == IF o.latKind = "ok" THEN o.lat ELSE 100 * 1000
         IN  Max(0, Pts(100) - (lat100 * 3) \div 5 - Pts(packet_loss))

\* the outputs of the two measurements of a step (via AP1, via AP2)
PingPairs10 ==
    {<<PingOk(25000, 0), PingOk(18000, 0)>>, <<PingOk(25000, 0), PingOk(17500, 0)>>,
     <<PingOk(25000, 0), PingOk(17495, 0)>>, <<PingOk(9500, 0), PingOk(18000, 0)>>,
     <<PingUnexpected, PingMalformed>>}

\* qualities check_connection_quality returns for them: 50/64, 50/65,
\* 50/65.01, 81/64 and 0/0
QualPairs10 ==
    {<<CheckConnectionQuality(o[1]), CheckConnectionQuality(o[2])>> : o \in PingPairs10}

\* the statement of the try block that raises, "none" when none does
RaisePoints10 ==
    {"none", "tc", "measure1", "route_del", "route_add", "measure2",
     "restore_del", "restore_add"}
\* statements after which ap1_qual / ap2_qual hold the new measurement
MeasuredAp1(e) == e \notin {"tc", "measure1"}
MeasuredAp2(e) == e \in {"none", "restore_del", "restore_add"}
ReachedDecision(e) == MeasuredAp2(e)

\* Ap2MuchBetter without the margin: AP2 wins as soon as it scores higher
Ap2Better(q1, q2) == q1 < q2

\* "if ap1_qual < ap2_qual - 15" (hysteresis of 15% to prevent oscillation)
Ap2MuchBetter(q1, q2) == q1 < q2 - Pts(HYSTERESIS10)

\* Decide10 with the way back: AP1 is taken again when it is better by more
\* than the margin
Decide10BothWays(cur, q1, q2) ==
    IF Ap2MuchBetter(q1, q2) /\ cur = "s1" THEN "s2"
    ELSE IF Ap2MuchBetter(q2, q1) /\ cur = "s2" THEN "s1"
    ELSE cur

\* current_ap after the decision
Decide10(cur, q1, q2) == IF Ap2MuchBetter(q1, q2) /\ cur = "s1" THEN "s2" ELSE cur

\* whether the decision takes the branch that switches the route back to AP1
RestoresAp1(cur, q1, q2) == ~Ap2MuchBetter(q1, q2) /\ cur # "s2"

\* the default route when the iteration ends, raising at e or not at all
RouteAfter10(rt, cur, q1, q2, e) ==
    IF e \in {"tc", "measure1", "route_del"} THEN rt
    ELSE IF e = "route_add" THEN "none"
    ELSE IF e = "measure2" THEN "ap2"
    ELSE IF ~RestoresAp1(cur, q1, q2) THEN "ap2"
    ELSE IF e = "restore_del" THEN "ap2"
    ELSE IF e = "restore_add" THEN "none"
    ELSE "ap1"

\* the restore statements exist only on the branch that runs them
CanRaise10(cur, q1, q2, e) ==
    e \in {"restore_del", "restore_add"} => RestoresAp1(cur, q1, q2)

Q10Step ==
    /\ script = "q10" /\ pc = "loop" /\ step < STEPS10
    /\ \E e \in RaisePoints10, o \in PingPairs10 :
         LET s == step + 1
             q == <<CheckConnectionQuality(o[1]), CheckConnectionQuality(o[2])>>
             cur == Decide10(current_ap10, q[1], q[2])
             first == cur # current_ap10 /\ ~handover_occurred
             occurred == handover_occurred \/ cur # current_ap10
             hstep == IF first THEN s ELSE handover_step
         IN  /\ e # "none" => errors10 < MaxErrors10
             /\ CanRaise10(current_ap10, q[1], q[2], e)
             /\ step' = s
             /\ errors10' = IF e = "none" THEN errors10 ELSE errors10 + 1
             /\ ap1_qual' = IF MeasuredAp1(e) THEN q[1] ELSE ap1_qual
             /\ ap2_qual' = IF MeasuredAp2(e) THEN q[2] ELSE ap2_qual
             /\ route' = RouteAfter10(route, current_ap10, q[1], q[2], e)
             /\ current_ap10' = IF ReachedDecision(e) THEN cur ELSE current_ap10
             /\ handover_occurred' = IF ReachedDecision(e) THEN occurred ELSE handover_occurred
             /\ handover_step' = IF ReachedDecision(e) THEN hstep ELSE handover_step
             /\ raised10' = e
             /\ source_failed' =
                   /\ source_failed
                   /\ MeasuredAp1(e) => FailedOutput(o[1])
                   /\ MeasuredAp2(e) => FailedOutput(o[2])
             /\ metrics10' = IF e = "none"
                             THEN Append(metrics10, [step |-> s, connected |-> cur])
                             ELSE metrics10
             \* "if handover_occurred and step > handover_step + 5: break"
             /\ pc' = IF e = "none" /\ occurred /\ s > hstep + SETTLE_STEPS
                      THEN "done" ELSE "loop"
    /\ UNCHANGED <<script, v11, v6, v7, vmon, v9, vana, vgrp, tm>>

\* ap1_quality[handover_step] / ap2_quality[handover_step] of the summary and
\* of the report: the entry of the lists at that index (Python counts from
\* 0), or an IndexError
IndexError == [step |-> -1, connected |-> "IndexError"]
QualityAtHandover(metrics, h) ==
    IF h + 1 <= Len(metrics) THEN metrics[h + 1] ELSE IndexError

Q10Finish ==
    /\ script = "q10" /\ pc = "loop" /\ step = STEPS10
    /\ pc' = "done"
    /\ UNCHANGED <<script, step, route, v11, v6, v7, vmon, v10, v9, vana, vgrp, tm>>

----------------------------------------------------------------------------

(* q9: simulate_mobility and the StreamingMonitor thread *)

\* topology(): time.sleep(3) between start_monitoring and simulate_mobility,
\* duration=30, time.sleep(5) before stop_monitoring
START9 == 3
duration9 == 30
COLLECT9 == 5
\* samples the monitor thread takes at most in a run
MaxMetrics9 == 3
\* seconds after start_monitoring the behaviour is followed for
MaxNow9 == 40

\* position = min(1.0, elapsed / total), "%.2f", in hundredths
Position100(elapsed, total) == Min(100, RoundDiv(elapsed * 100, total))
\* _monitor_loop: 0.48 < position < 0.52 with position = min(1.0, elapsed / 30.0)
InHandoverWindow(elapsed) == 48 * 30 < elapsed * 100 /\ elapsed * 100 < 52 * 30

\* the wall clock advances by a second
Q9Tick ==
    /\ script = "q9"
    /\ now < MaxNow9
    /\ now' = now + 1
    /\ UNCHANGED <<script, pc, step, route, v11, v6, v7, vmon, v10, handover_done, monitor, vana, vgrp, tm>>

\* one test of "while time.time() - start_time < duration" in
\* simulate_mobility and the body it guards; time.sleep(1) separates two
\* iterations.  step is the elapsed time read by the iteration.
Q9Step ==
    /\ script = "q9" /\ pc = "loop"
    /\ now - START9 > step
    /\ step' = now - START9
    /\ IF step' < duration9
       THEN /\ pc' = pc
            /\ IF ~handover_done /\ 2 * step' >= duration9
               THEN /\ handover_events' = Append(handover_events,
                          [elapsed |-> 10 * step',
                           position |-> Position100(step', duration9),
                           event |-> "Handover from AP1 to AP2"])
                    /\ handover_done' = TRUE
               ELSE UNCHANGED <<handover_events, handover_done>>
       ELSE /\ pc' = "collect"
            /\ UNCHANGED <<handover_events, handover_done>>
    /\ UNCHANGED <<script, route, v11, v6, handover_performed, drift, aborted,
                   ref_route, ref_events, vmon, v10, now, monitor, vana, vgrp, tm>>

\* time.sleep(5), then stop_monitoring: self.running = False
Q9Stop ==
    /\ script = "q9" /\ pc = "collect"
    /\ now >= Min(MaxNow9, START9 + step + COLLECT9)
    /\ monitor' = [monitor EXCEPT !.running = FALSE]
    /\ pc' = "done"
    /\ UNCHANGED <<script, step, route, v11, v6, v7, vmon, v10, now, handover_done, vana, vgrp, tm>>

\* "while self.running:" evaluated by the StreamingMonitor thread
Q9MonitorCheck ==
    /\ script = "q9"
    /\ monitor.pc = "check"
    /\ monitor' = [monitor EXCEPT !.pc = IF monitor.running THEN "sample" ELSE "exited"]
    /\ UNCHANGED <<script, pc, step, route, v11, v6, v7, vmon, v10, now, handover_done, vana, vgrp, tm>>

\* record_event(position, "Handover from AP1 to AP2") of StreamingMonitor
RecordHandover9(m, elapsed) ==
    [m EXCEPT !.handover_occurred = TRUE,
              !.handover_time = elapsed,
              !.handover_position = Position100(elapsed, 30)]

\* the body of one iteration of _monitor_loop: a sample appended to
\* self.metrics, the "special events" test, then time.sleep(0.5)
Q9MonitorSample ==
    /\ script = "q9"
    /\ monitor.pc = "sample"
    /\ monitor.metrics < MaxMetrics9
    /\ LET m == [monitor EXCEPT !.metrics = @ + 1, !.pc = "check"]
       IN  monitor' = IF ~monitor.handover_occurred /\ InHandoverWindow(now)
                      THEN RecordHandover9(m, now)
                      ELSE m
    /\ UNCHANGED <<script, pc, step, route, v11, v6, v7, vmon, v10, now, handover_done, vana, vgrp, tm>>

\* StreamingMonitor.__init__ and start_monitoring
InitMonitor9 ==
    [running |-> TRUE, pc |-> "check", metrics |-> 0,
     handover_occurred |-> FALSE, handover_time |-> -1, handover_position |-> 50]
\* no StreamingMonitor in the other scripts
NoMonitor9 ==
    [running |-> FALSE, pc |-> "none", metrics |-> 0,
     handover_occurred |-> FALSE, handover_time |-> -1, handover_position |-> 50]

-----------------------------------------------------------------------------
(* analysis of a results file: analyze_results of q7/script.py,
   visualize_throughput of q8/script.py and q8/script2.py *)

\* ./ping_output.txt as analyze_results finds it:
\*   "missing"  no such file
\*   "empty"    no 'bytes from' in it, or at most 10 characters
\*   "garbled"  'bytes from' lines without a 'time=' field
\*   "replies"  the reply lines of ping, "... time=0.045 ms"
\*   "compact"  reply lines written as "... time=12ms"
PingFiles == {"missing", "empty", "garbled", "replies", "compact"}
\* 'Destination Host Unreachable' lines generate_synthetic_ping_data draws
\* (each sequence number is lost with probability 0.01 or 0.8)
SyntheticLost == {0, 2}

\* ping times the parser keeps of n reply lines: the text after 'time=' up
\* to the next blank must contain 'ms'
ParsedTimes(content, n) == IF content = "compact" THEN n ELSE 0

\* analyze_results; lost is the number of sequence numbers the synthetic file
\* marks as lost, should it be generated
AnalyzeResults7(file, lost) ==
    LET has_valid_data == file \in {"garbled", "replies", "compact"}
        content == IF has_valid_data THEN file ELSE "synthetic"
        ping_times == ParsedTimes(content, 3)
        n_lost == IF content = "synthetic" THEN lost ELSE 0
        total_pings == ping_times + n_lost
    IN  [regenerated |-> ~has_valid_data,
         retries |-> 0,
         outcome |-> IF total_pings = 0 THEN "no data"
                     ELSE IF ping_times > 0 THEN "plotted"
                     ELSE "not enough data"]

\* ./throughput_data.txt as visualize_throughput finds it:
\*   "missing"  no such file
\*   "zero"     a file of zero bytes
\*   "header"   the header line only
\*   "garbled"  the header and lines float() rejects
\*   "zeros"    the header and lines whose throughput is 0.0
\*   "valid"    the header and lines with a positive throughput
\* and as the script writes it: "synthetic" (generate_synthetic_throughput_data,
\* create_realistic_throughput_data), "simple" (create_simple_throughput_data)
ThroughputFiles == {"missing", "zero", "header", "garbled", "zeros", "valid"}

\* "if not elapsed_times" (q8/script.py), "if not elapsed_times or
\* max(throughputs) <= 0" (q8/script2.py)
NoData(sc, file) ==
    file \in {"header", "garbled"} \/ (sc = "vis8b" /\ file = "zeros")

\* visualize_throughput; depth counts the calls of itself it is nested in,
\* plotError is an exception raised while plotting
RECURSIVE VisualizeFile(_, _, _, _)
VisualizeFile(sc, file, plotError, depth) ==
    LET f0 == IF file = "missing" THEN "synthetic" ELSE file
        \* the except branch: q8/script2.py writes the simple data
        failed == [regenerated |-> (file = "missing" \/ sc = "vis8b"),
                   retries |-> depth, outcome |-> "error"]
    IN  IF f0 = "zero" THEN failed
        ELSE IF NoData(sc, f0)
        THEN [VisualizeFile(sc, "synthetic", plotError, depth + 1)
                  EXCEPT !.regenerated = TRUE]
        ELSE IF plotError THEN failed
        ELSE [regenerated |-> (file = "missing"), retries |-> depth,
              outcome |-> "plotted"]

NoAnalysis == [regenerated |-> FALSE, retries |-> 0, outcome |-> "none"]

AnalyzeResults ==
    /\ script = "ana7" /\ pc = "loop"
    /\ \E lost \in SyntheticLost : analysis' = AnalyzeResults7(results_file, lost)
    /\ pc' = "done"
    /\ UNCHANGED <<script, step, route, v11, v6, v7, vmon, v10, v9, results_file, vgrp, tm>>

VisualizeResults ==
    /\ script \in {"vis8", "vis8b"} /\ pc = "loop"
    /\ \E plotError \in BOOLEAN :
         analysis' = VisualizeFile(script, results_file, plotError, 0)
    /\ pc' = "done"
    /\ UNCHANGED <<script, step, route, v11, v6, v7, vmon, v10, v9, results_file, vgrp, tm>>

-----------------------------------------------------------------------------
(* q7/script2.py: create_visualization, "Group consecutive lost packets" *)

\* highest sequence number a lost packet can have
MaxSeq == 7

\* sorted(list(all_lost)): the numbers of S in increasing order
RECURSIVE Sorted(_)
Sorted(S) ==
    IF S = {} THEN <<>>
    ELSE LET m == CHOOSE x \in S : \A y \in S : x <= y
         IN  <<m>> \o Sorted(S \ {m})

\* IsRegion that takes two consecutive lost packets for a region already
IsRegionOfTwo(start, end) == end - start >= 1

\* "if end - start >= 2": at least 3 consecutive lost packets
IsRegion(start, end) == end - start >= 2

\* before the loop: lost_regions = [], i = 0
InitGrouping == [i |-> 0, start |-> 0, end |-> 0, at |-> "outer"]

\* "while i < len(lost_packets):" and, inside, start and end set to
\* lost_packets[i] (Python counts from 0)
GroupStart ==
    /\ script = "grp" /\ pc = "loop"
    /\ grouping.at = "outer"
    /\ IF grouping.i < Len(lost_packets)
       THEN /\ grouping' = [grouping EXCEPT !.start = lost_packets[grouping.i + 1],
                                            !.end = lost_packets[grouping.i + 1],
                                            !.at = "inner"]
            /\ pc' = pc
       ELSE /\ pc' = "done"
            /\ grouping' = grouping
    /\ UNCHANGED <<script, step, route, v11, v6, v7, vmon, v10, v9, vana,
                   lost_packets, lost_regions, tm>>

\* one test of the inner while: the next number continues the run, or the
\* run is closed, kept if it is a region, and i moves on
GroupExtend ==
    /\ script = "grp" /\ pc = "loop"
    /\ grouping.at = "inner"
    /\ LET i == grouping.i
       IN  IF i + 1 < Len(lost_packets) /\ lost_packets[i + 2] = lost_packets[i + 1] + 1
           THEN /\ grouping' = [grouping EXCEPT !.end = lost_packets[i + 2], !.i = i + 1]
                /\ lost_regions' = lost_regions
           ELSE /\ lost_regions' =
                      IF IsRegion(grouping.start, grouping.end)
                      THEN Append(lost_regions, <<grouping.start, grouping.end>>)
                      ELSE lost_regions
                /\ grouping' = [grouping EXCEPT !.i = i + 1, !.at = "outer"]
    /\ UNCHANGED <<script, pc, step, route, v11, v6, v7, vmon, v10, v9, vana, lost_packets, tm>>

-----------------------------------------------------------------------------
(* q8/script2.py: record_event of the main thread against
   _generate_realistic_throughput of the monitor thread *)

\* seconds since start_time at which record_event and the monitor thread
\* read the clock
EventElapsed == {11, 12}
SampleElapsed == {10, 13}

\* Python's None, and a time t that is set: the empty and the one-element
\* tuple
None == <<>>
\* time_since_handover: not yet assigned, a number, or the TypeError of
\* "float - None"
Unset == <<"unset">>
TypeError == <<"TypeError">>
Num(x) == <<"float", x>>

\* ThroughputMonitor.__init__
InitMonitor8b ==
    [start_time |-> None, handover_occurred |-> FALSE, handover_time |-> None,
     main |-> "created", elapsed |-> 0,
     thread |-> "none", read |-> <<FALSE, None>>, time_since_handover |-> Unset]

\* elapsed - self.handover_time
SinceHandover(elapsed, handover_time) ==
    IF handover_time = None THEN TypeError ELSE Num(elapsed - handover_time[1])

\* topology: monitor.start_monitoring() sets start_time and starts the thread
StartMonitoring8b ==
    /\ script = "rec8b" /\ pc = "loop"
    /\ tm.main = "created"
    /\ tm' = [tm EXCEPT !.start_time = <<0>>, !.main = "mobility", !.thread = "sample"]
    /\ UNCHANGED <<script, pc, step, route, v11, v6, v7, vmon, v10, v9, vana, vgrp>>

\* record_event: elapsed = time.time() - self.start_time and the line
\* written to the file
RecordElapsed ==
    /\ script = "rec8b" /\ pc = "loop"
    /\ tm.main = "mobility"
    /\ \E e \in EventElapsed :
         tm' = [tm EXCEPT !.elapsed = e,
                          !.main = IF tm.start_time = None THEN "TypeError" ELSE "written"]
    /\ UNCHANGED <<script, pc, step, route, v11, v6, v7, vmon, v10, v9, vana, vgrp>>

\* record_event: self.handover_occurred = True
RecordOccurred ==
    /\ script = "rec8b" /\ pc = "loop"
    /\ tm.main = "written"
    /\ tm' = [tm EXCEPT !.handover_occurred = TRUE, !.main = "occurred"]
    /\ UNCHANGED <<script, pc, step, route, v11, v6, v7, vmon, v10, v9, vana, vgrp>>

\* record_event: self.handover_time = elapsed
RecordTime ==
    /\ script = "rec8b" /\ pc = "loop"
    /\ tm.main = "occurred"
    /\ tm' = [tm EXCEPT !.handover_time = <<tm.elapsed>>, !.main = "recorded"]
    /\ pc' = "done"
    /\ UNCHANGED <<script, step, route, v11, v6, v7, vmon, v10, v9, vana, vgrp>>

\* where the thread goes once it has read self.handover_time in the test,
\* should the test not look at what it read
AfterTimeTestBlind(handover_time) == "subtract"

\* "and self.handover_time is not None"
AfterTimeTest(handover_time) == IF handover_time # None THEN "subtract" ELSE "default"

\* _generate_realistic_throughput: "if self.handover_occurred"
GenerateTestOccurred ==
    /\ script = "rec8b"
    /\ tm.thread = "sample"
    /\ tm' = [tm EXCEPT !.read = <<tm.handover_occurred, None>>,
                        !.time_since_handover = Unset,
                        !.thread = IF tm.handover_occurred THEN "test_time" ELSE "default"]
    /\ UNCHANGED <<script, pc, step, route, v11, v6, v7, vmon, v10, v9, vana, vgrp>>

\* "... and self.handover_time is not None"
GenerateTestTime ==
    /\ script = "rec8b"
    /\ tm.thread = "test_time"
    /\ tm' = [tm EXCEPT !.read = <<TRUE, tm.handover_time>>,
                        !.thread = AfterTimeTest(tm.handover_time)]
    /\ UNCHANGED <<script, pc, step, route, v11, v6, v7, vmon, v10, v9, vana, vgrp>>

\* "time_since_handover = elapsed - self.handover_time", then the rest of the
\* sample
GenerateSubtract ==
    /\ script = "rec8b"
    /\ tm.thread = "subtract"
    /\ \E e \in SampleElapsed :
         tm' = [tm EXCEPT !.time_since_handover = SinceHandover(e, tm.handover_time),
                          !.thread = "sample"]
    /\ UNCHANGED <<script, pc, step, route, v11, v6, v7, vmon, v10, v9, vana, vgrp>>

\* "time_since_handover = elapsed - 10.0 if position > 0.5 else -1.0", then
\* the rest of the sample
GenerateDefault ==
    /\ script = "rec8b"
    /\ tm.thread = "default"
    /\ \E e \in SampleElapsed :
         tm' = [tm EXCEPT !.time_since_handover = Num(IF e > 10 THEN e - 10 ELSE -1),
                          !.thread = "sample"]
    /\ UNCHANGED <<script, pc, step, route, v11, v6, v7, vmon, v10, v9, vana, vgrp>>

-----------------------------------------------------------------------------
Scripts == {"q6", "q7", "q8", "q8b", "q9", "q10", "q11", "rule11", "lin6", "lin7",
            "ana7", "vis8", "vis8b", "grp", "rec8b"}

\* link1/link2/link3 as created by addLink: 5ms/0%, 50ms/10%, 100ms/20%
InitialLinks ==
    <<[delay |-> 5, loss10 |-> 0], [delay |-> 50, loss10 |-> 100],
      [delay |-> 100, loss10 |-> 200]>>

\* the loop variable before the first iteration: range(1, n + 1) in q10 and
\* q11, range(n + 1) in q6, q7 and q8
BeforeFirstStep(sc) ==
    IF sc \in {"q10", "q11", "rule11", "lin6", "lin7"} THEN 0 ELSE -1

Init ==
    /\ script \in Scripts
    /\ pc = "loop"
    /\ step = BeforeFirstStep(script)
    \* "ip route add default via <AP1>"; q7 and q8 read the table back, so
    \* there the outcome of the command is part of the state
    /\ route \in (IF script \in {"q7", "q8", "q8b"} THEN {"ap1", "none"} ELSE {"ap1"})
    /\ current_ap = 1
    /\ ap_quality = [ap \in 1..3 |-> 0]
    /\ handover_positions = <<>>
    /\ applied = IF script \in {"lin6", "lin7"}
                 THEN LinearModel(script, 0) ELSE InitialLinks
    /\ ref_ap = 1
    /\ ref_positions = <<>>
    /\ current_link = 1
    /\ ping_output = <<>>
    /\ handover_events = <<>>
    /\ handover_performed = FALSE
    /\ drift = 0
    /\ aborted = FALSE
    /\ ref_route = "ap1"
    /\ ref_events = <<>>
    \* ThroughputMonitor() and start_monitoring() precede simulate_mobility
    /\ running = (script \in {"q8", "q8b"})
    /\ monitor_pc = IF script \in {"q8", "q8b"} THEN "check" ELSE "none"
    /\ throughput_data = 0
    /\ throughput_file = [n |-> 0, sum |-> 0]
    \* q10 before the loop: current_ap = get_current_ap(), the initial
    \* measurement of both APs, the route restored to AP1, the first sample
    /\ current_ap10 \in (IF script = "q10" THEN CurrentApResults ELSE {"s1"})
    /\ \E o \in (IF script = "q10" THEN PingPairs10
                  ELSE {<<PingUnexpected, PingUnexpected>>}) :
         /\ ap1_qual = (IF script = "q10" THEN CheckConnectionQuality(o[1]) ELSE 0)
         /\ ap2_qual = (IF script = "q10" THEN CheckConnectionQuality(o[2]) ELSE 0)
         /\ source_failed = (FailedOutput(o[1]) /\ FailedOutput(o[2]))
    /\ handover_occurred = FALSE
    /\ handover_step = 0
    /\ metrics10 = IF script = "q10"
                   THEN <<[step |-> 0, connected |-> current_ap10]>> ELSE <<>>
    /\ errors10 = 0
    /\ raised10 = "none"
    /\ now = 0
    /\ handover_done = FALSE
    /\ monitor = IF script = "q9" THEN InitMonitor9 ELSE NoMonitor9
    /\ results_file \in (IF script = "ana7" THEN PingFiles
                         ELSE IF script \in {"vis8", "vis8b"} THEN ThroughputFiles
                         ELSE {"none"})
    /\ analysis = NoAnalysis
    /\ lost_packets \in (IF script = "grp"
                         THEN {Sorted(S) : S \in SUBSET (1..MaxSeq)} ELSE {<<>>})
    /\ lost_regions = <<>>
    /\ grouping = InitGrouping
    /\ tm = InitMonitor8b

Next ==
    \/ Q11Step
    \/ Q11Finish
    \/ RuleStep11
    \/ LinearEval
    \/ Q6Step
    \/ Q6Error
    \/ Q6Finish
    \/ Q7Step
    \/ Q8Step
    \/ Q8bStep
    \/ MobilityError
    \/ MobilityFinish
    \/ MonitorCheck
    \/ MonitorSample
    \/ StopMonitoring
    \/ JoinReturns
    \/ VisualizeThroughput
    \/ Q10Step
    \/ Q10Finish
    \/ Q9Tick
    \/ Q9Step
    \/ Q9Stop
    \/ Q9MonitorCheck
    \/ Q9MonitorSample
    \/ AnalyzeResults
    \/ VisualizeResults
    \/ GroupStart
    \/ GroupExtend
    \/ StartMonitoring8b
    \/ RecordElapsed
    \/ RecordOccurred
    \/ RecordTime
    \/ GenerateTestOccurred
    \/ GenerateTestTime
    \/ GenerateSubtract
    \/ GenerateDefault

Spec == Init /\ [][Next]_vars

----------------------------------------------------------------------------
(* Claims *)

Is11 == script \in {"q11", "rule11"}
\* an iteration of the q11 decision block was executed by this step
Stepped11 == Is11 /\ step' # step
\* an iteration of q10 ran to its end (its sample was appended)
Completed10 == script = "q10" /\ Len(metrics10') > Len(metrics10)
\* challenger b beats the active AP a by more than 15 points in scores q
Exceeds15(q, a, b) == q[b] > q[a] + Pts(15)

\* C1 (as claimed): in q11 for every active/challenger pair (A, B), and in
\* q10 for AP1 -> AP2, the step hands over from A to B if and only if
\* score(B) > score(A) + 15.
C1_Claim ==
    [][/\ Stepped11 =>
            \A b \in 1..3 : b # current_ap =>
                (current_ap' = b <=> Exceeds15(ap_quality', current_ap, b))
       /\ (Completed10 /\ current_ap10 = "s1") =>
            (current_ap10' = "s2" <=> ap2_qual' > ap1_qual' + Pts(15))]_vars

\* C1 (amended): the step hands over from A to B if and only if
\* score(B) > score(A) + 15 and, in q11, no challenger with a lower AP
\* number than B also exceeds score(A) + 15; so with score(A) = 50 a
\* challenger at 64 or 65 never wins and one at 65.01 wins unless the
\* challenger tested before it qualifies too.
C1_Amended ==
    [][/\ Stepped11 =>
            \A b \in 1..3 : b # current_ap =>
                (current_ap' = b <=>
                    /\ Exceeds15(ap_quality', current_ap, b)
                    /\ \A c \in 1..(b - 1) :
                         c # current_ap => ~Exceeds15(ap_quality', current_ap, c))
       /\ Stepped11 =>
            \A b \in 1..3 :
                (/\ ap_quality'[current_ap] = Cents(5000)
                 /\ ap_quality'[b] \in {Cents(6400), Cents(6500)}) => current_ap' # b
       /\ (Completed10 /\ current_ap10 = "s1") =>
            (current_ap10' = "s2" <=> ap2_qual' > ap1_qual' + Pts(15))]_vars

\* C1 witness: AP1 active with score 50, AP2 at 65.01 took over; and AP3
\* at 65 did not
C1_Witness ==
    /\ script = "rule11" /\ step = 1
    /\ ap_quality = <<Cents(5000), Cents(6501), Cents(6500)>>
    /\ current_ap = 2
    /\ handover_positions = <<<<Position3(1), 1, 2>>>>

\* the handover lines of q6 among the lines written so far
IsHandoverLine6(l) == l.text \in {"Handover to AP1", "Handover to AP2"}
HandoverLines6 == SelectSeq(ping_output, IsHandoverLine6)
\* the loop of simulate_mobility is running or has just run to its end
Family7 == {"q7", "q8", "q8b"}
InLoop7 == script \in Family7 /\ ~aborted /\ pc \in {"loop", AfterLoop(script)}
\* an iteration of simulate_mobility was executed by this step
Stepped7 == script \in Family7 /\ step' # step

\* C2 (as claimed): with step_count = 20 (q6) and duration = 20 (q7, q8) a
\* run records no handover at steps 0..10, exactly one handover AP1 -> AP2
\* at step 11 (position 0.55), and none at steps 12..20.
C2_Claim ==
    /\ script = "q6" =>
         HandoverLines6 = IF step >= 11
                          THEN <<[step |-> 11, text |-> "Handover to AP2"]>>
                          ELSE <<>>
    /\ InLoop7 =>
         /\ step <= 10 => handover_events = <<>>
         /\ step >= 11 =>
              /\ Len(handover_events) = 1
              /\ handover_events[1].position = 55
              /\ handover_events[1].event = "Handover from AP1 to AP2"

\* score = 100 - delay - loss of the q6 and q7/q8 link models at position p,
\* in twentieths of a point
Score6(ap, p) ==
    IF ap = 1 THEN 20 * 100 - Ap1Delay6(p) - Ap1Loss6(p)
    ELSE 20 * 100 - Ap2Delay6(p) - Ap2Loss6(p)
Score7(ap, p) ==
    IF ap = 1 THEN 20 * 100 - Ap1Delay7(p) - Ap1Loss7(p)
    ELSE 20 * 100 - Ap2Delay7(p) - Ap2Loss7(p)

\* the q10 and q11 half of C3: no handover AP1 -> AP2 within the margin
MarginGated ==
    /\ (script = "q10" /\ current_ap10 = "s1" /\ current_ap10' = "s2") =>
         ap2_qual' > ap1_qual' + Pts(15)
    /\ (Stepped11 /\ current_ap = 1 /\ current_ap' = 2) =>
         Exceeds15(ap_quality', 1, 2)

\* C3 (as claimed): q6, q7 and q8, like q10 and q11, never hand over from
\* AP1 to AP2 at a step where score(AP2) <= score(AP1) + 15.
C3_Claim ==
    [][/\ MarginGated
       /\ (script = "q6" /\ current_link = 1 /\ current_link' = 2) =>
            Score6(2, step') > Score6(1, step') + 20 * 15
       /\ (Stepped7 /\ Len(handover_events') > Len(handover_events)) =>
            Score7(2, step') > Score7(1, step') + 20 * 15]_vars

\* C3 (amended): only q10 and q11 gate the handover AP1 -> AP2 by the 15
\* point margin.  q6 hands over at a step where AP2 has strictly more
\* bandwidth and strictly less loss than AP1, q7 and q8 at a step whose
\* position exceeds 0.5 while the default route is via AP1; AP2 then scores
\* higher than AP1, but by less than the margin at step 11.
C3_Amended ==
    [][/\ MarginGated
       /\ (script = "q6" /\ current_link = 1 /\ current_link' = 2) =>
            /\ 20 * 1 + step' * 19 > 20 * 20 - step' * 19
            /\ 20 * 50 - step' * 50 < step' * 50
            /\ Score6(2, step') > Score6(1, step')
       /\ (Stepped7 /\ Len(handover_events') > Len(handover_events)) =>
            /\ 2 * step' > duration
            /\ route = "ap1"
            /\ Score7(2, step') > Score7(1, step')]_vars

\* C3 witness: q6 has handed over at step 11, where AP2 leads by 6.9 points
C3_Witness ==
    /\ script = "q6" /\ step = 11 /\ current_link = 2
    /\ Score6(2, 11) - Score6(1, 11) = 138
    /\ Len(HandoverLines6) = 1

\* the handover recorded last was made at the step just executed
JustHandedOver ==
    /\ handover_positions # <<>>
    /\ Last(handover_positions)[1] = Position3(step)

\* C4: in the q11 rule, for any sequence of scores, (a) the active link
\* changes to B only at a step where score(B) > score(active) + 15, so a
\* handover back needs the old AP to lead by more than 15; (b) no handover
\* takes place between two candidates whose scores are within 15 points of
\* each other; (c) a handover A -> B followed at the very next step by
\* B -> A means score(B) - score(A) dropped by more than 30 in between.
C4_NoOscillation ==
    [][Stepped11 =>
        /\ current_ap' # current_ap =>
             Exceeds15(ap_quality', current_ap, current_ap')
        /\ \A b \in 1..3 :
             (/\ ap_quality'[b] - ap_quality'[current_ap] <= Pts(15)
              /\ ap_quality'[current_ap] - ap_quality'[b] <= Pts(15)) =>
                 current_ap' # b \/ b = current_ap
        /\ (/\ JustHandedOver
            /\ current_ap' = Last(handover_positions)[2]
            /\ current_ap' # current_ap) =>
               (ap_quality[current_ap] - ap_quality[current_ap'])
                 - (ap_quality'[current_ap] - ap_quality'[current_ap']) > Pts(30)]_vars

\* C4 witness: AP1 -> AP2 at step 1 with scores 50 / 65.01, and back at
\* step 2 with the scores exchanged
C4_Witness ==
    /\ script = "rule11" /\ step = 2 /\ current_ap = 1
    /\ Len(handover_positions) = 2
    /\ handover_positions[1] = <<Position3(1), 1, 2>>
    /\ handover_positions[2] = <<Position3(2), 2, 1>>
    /\ ap_quality[1] = Cents(6501) /\ ap_quality[2] = Cents(5000)

\* C5 (as claimed): exactly one link is active at all times: current_ap
\* is 1, 2 or 3 in q11 and 's1' or 's2' in q10 (also when get_current_ap
\* finds neither interface), current_link is 1 or 2 in q6, and it is AP1
\* before the first step.
C5_Claim ==
    /\ Is11 => current_ap \in {1, 2, 3}
    /\ script = "q10" => current_ap10 \in {"s1", "s2"}
    /\ script = "q6" => current_link \in {1, 2}
    /\ step = BeforeFirstStep(script) =>
         /\ Is11 => current_ap = 1
         /\ script = "q10" => current_ap10 = "s1"
         /\ script = "q6" => current_link = 1

\* C6 (as claimed): at the end of every step of q6, q10 and q11, steps of
\* q10 that end in the exception handler included, the default route of
\* the station points at the AP recorded as active.
C6_Claim ==
    /\ (script = "q11" /\ step >= 1) =>
         \/ current_ap = 1 /\ route = "ap1"
         \/ current_ap = 2 /\ route = "ap2"
         \/ current_ap = 3 /\ route = "ap3"
    /\ (script = "q6" /\ step >= 0) =>
         \/ current_link = 1 /\ route = "ap1"
         \/ current_link = 2 /\ route = "ap2"
    /\ (script = "q10" /\ step >= 1) =>
         \/ current_ap10 = "s1" /\ route = "ap1"
         \/ current_ap10 = "s2" /\ route = "ap2"

\* consecutive records of the q11 log: from # to, and each record starts
\* where the one before it ended
Chained(log) ==
    /\ \A i \in 1..Len(log) : log[i][2] # log[i][3]
    /\ \A i \in 1..(Len(log) - 1) : log[i][3] = log[i + 1][2]

\* C7: in q11 (and q6) a step that changes the active link appends exactly
\* one handover event with from = the link active before the step and
\* to = the link active after it, a step that does not change it appends
\* none; so there are as many events as changes, from # to in each, and
\* each event's `to` is the next one's `from`.
C7_EventPerChange ==
    [][/\ Stepped11 =>
            /\ current_ap' # current_ap =>
                 handover_positions' =
                     Append(handover_positions,
                            <<Position3(step'), current_ap, current_ap'>>)
            /\ current_ap' = current_ap =>
                 handover_positions' = handover_positions
            /\ Chained(handover_positions')
            /\ handover_positions' # <<>> =>
                 /\ handover_positions'[1][2] = 1
                 /\ Last(handover_positions')[3] = current_ap'
       /\ (script = "q6" /\ step' # step) =>
            /\ current_link' # current_link =>
                 HandoverLines6' =
                     Append(HandoverLines6,
                            [step |-> step',
                             text |-> IF current_link = 1 THEN "Handover to AP2"
                                      ELSE "Handover to AP1"])
            /\ current_link' = current_link =>
                 HandoverLines6' = HandoverLines6]_vars

\* C7 witness: the q11 run has changed AP twice and logged 1 -> 2, 2 -> 3
C7_Witness ==
    /\ script = "q11" /\ current_ap = 3
    /\ handover_positions = <<<<Position3(11), 1, 2>>, <<Position3(22), 2, 3>>>>

IsPrefix(a, b) == Len(a) <= Len(b) /\ \A i \in 1..Len(a) : a[i] = b[i]

\* C9 (as claimed): the handover log (handover_events.txt in q7/q8,
\* handover_positions in q11) only grows by appending: no operation,
\* stop_monitoring and visualize_throughput included, removes, modifies or
\* reorders a record already written.
C9_Claim ==
    [][/\ IsPrefix(handover_events, handover_events')
       /\ IsPrefix(handover_positions, handover_positions')]_vars

LastStep(sc) ==
    IF sc = "q11" THEN total_steps
    ELSE IF sc = "q10" THEN STEPS10
    ELSE IF sc = "q6" THEN step_count
    ELSE duration
\* q10 left its loop through "break"
Broke10 == handover_occurred /\ step > handover_step + SETTLE_STEPS
Loops == {"q6", "q7", "q8", "q8b", "q10", "q11"}

\* C11 (as claimed): when applying the link parameters fails at a step,
\* every mobility loop (q6, q7, q8, q10, q11) goes on with the remaining
\* steps: a loop is left only after its last step (or, in q10, through the
\* break that follows a handover), never because of the failure.
C11_Claim ==
    (script \in Loops /\ pc # "loop") =>
        \/ step = LastStep(script)
        \/ script = "q10" /\ Broke10

\* C12 (as claimed): a failing measurement never reaches the caller of
\* q10's check_connection_quality, which always returns a quality in
\* [0, 100]; so in a q10 run whose every measurement fails, the metrics hold
\* the initial record and one record for each of the 20 steps, and no
\* handover is made.
C12_Claim ==
    script = "q10" =>
        /\ ap1_qual \in 0..Pts(100) /\ ap2_qual \in 0..Pts(100)
        /\ raised10 \notin {"measure1", "measure2"}
        /\ (source_failed /\ errors10 = 0) =>
             /\ ~handover_occurred
             /\ Len(metrics10) = step + 1

\* one transition of a step loop
StepAdvances ==
    script \in Loops =>
        /\ step' = step \/ step' = step + 1
        /\ step' \in BeforeFirstStep(script)..LastStep(script)
        /\ (pc = "loop" /\ pc' # "loop") =>
             \/ step' = LastStep(script)
             \/ (script = "q10" /\ handover_occurred'
                 /\ step' > handover_step' + 5)

\* C13 (as claimed): in every step loop the step index grows by exactly one
\* per iteration, stays within the configured range (0..20 in q6/q7/q8,
\* 1..30 in q11, 1..20 in q10), and the loop ends only when the configured
\* count is reached (in q10 also through the break after a handover).
C13_Claim == [][StepAdvances]_vars

\* C14 (as claimed): in q10, once the first handover has occurred at step
\* h, no step later than h + 5 is executed, and the loop stops with
\* step h + 5 (or step 20 when h + 5 > 20) as the last step executed.
C14_Claim ==
    (script = "q10" /\ handover_occurred) =>
        /\ step <= handover_step + 5
        /\ pc = "done" => step = Min(handover_step + 5, 20)

\* C15 (as claimed, for q11): after every step the delay and loss last
\* pushed to each link are the output of the quality model at the current
\* position, not rounded and not older, and the score used by the decision
\* is 100 - delay - 5 * loss of exactly those pushed values.
C15_Claim ==
    (script = "q11" /\ step >= 1) =>
        \A ap \in 1..3 :
            /\ 3 * applied[ap].delay = Delay3(step, ap)
            /\ 15 * applied[ap].loss10 = 10 * Loss15(step, ap)
            /\ ap_quality[ap] =
                 Pts(100) - Pts(applied[ap].delay) - (5 * Pts(applied[ap].loss10)) \div 10

\* the position computed by the iteration that this step executes
PositionOfStep ==
    /\ (script \in {"q6", "q7", "q8", "q8b"} /\ step' # step) =>
         LET total == LastStep(script)
             p == Position20(step', total)
         IN  /\ p * total = 20 * step'
             /\ p \in 0..20
             /\ step' = 0 => p = 0
             /\ step' = total => p = 20
             /\ step >= 0 => p > Position20(step, total)
    /\ (script = "q11" /\ step' # step) =>
         /\ 30 * Position3(step') = 3 * 140 * step'
         /\ Position3(step') > 0
         /\ Position3(step') <= 3 * 140
         /\ Position3(step') > Position3(step)

\* C16: the position is a function of the step index only: in q6/q7/q8 it
\* is step / total_steps, 0 at the first step, 1 at the last, strictly
\* increasing and within [0, 1]; in q11 it is step * 140 / 30, strictly
\* increasing and within (0, 140].
C16_Position == [][PositionOfStep]_vars

\* C16 witness: the last iteration of q7 has run, at position 1, and the
\* handover line written on the way carries position 0.55 of step 11
C16_Witness ==
    /\ script = "q7" /\ step = duration /\ pc = "loop"
    /\ Position20(step, duration) = 20
    /\ Len(handover_events) = 1
    /\ handover_events[1].position = 55

\* clamp(p, 0, 1), in twentieths
Clamp20(p) == Max(0, Min(20, p))
\* the cap of the loss expressions: min(99, ...) in q6, min(80, ...) in q7/q8
LossCap(sc) == IF sc = "lin6" THEN 20 * 99 ELSE 20 * 80

BandwidthMonotone ==
    /\ (script = "q6" /\ step' = step + 1 /\ step >= 0) =>
         /\ Ap1Bw6(step') <= Ap1Bw6(step)
         /\ Ap2Bw6(step') >= Ap2Bw6(step)
    /\ (script \in Family7 /\ step' = step + 1 /\ step >= 0) =>
         /\ Ap1Bw7(step') <= Ap1Bw7(step)
         /\ Ap2Bw7(step') >= Ap2Bw7(step)
    /\ (script = "q6" /\ step' = 0) => (Ap1Bw6(0) = 20 * 20 /\ Ap2Bw6(0) = 20 * 1)
    /\ (script = "q6" /\ step' = 20) => (Ap1Bw6(20) = 20 * 1 /\ Ap2Bw6(20) = 20 * 20)
    /\ (script \in Family7 /\ step' = 0) => (Ap1Bw7(0) = 20 * 20 /\ Ap2Bw7(0) = 20 * 1)
    /\ (script \in Family7 /\ step' = 20) => (Ap1Bw7(20) = 20 * 1 /\ Ap2Bw7(20) = 20 * 20)
    \* the model evaluated at a position p of [0, 1]: AP2 at p is AP1 at 1 - p
    /\ (script \in {"lin6", "lin7"} /\ step' \in 0..20) =>
         applied'[2] = LinearModel(script, 20 - step')[1]

C19_DistanceModel ==
    (script = "q11" /\ step >= 1) =>
        /\ \A ap \in 1..3 :
              /\ Delay3(step, ap) \in (3 * 5)..(3 * 100)
              /\ Loss15(step, ap) \in 0..(15 * 20)
              /\ ap_quality[ap] = LinkQuality(Delay3(step, ap), Loss15(step, ap))
              /\ ap_quality[ap] <= Pts(95)
              /\ \A t \in 0..total_steps, b \in 1..3 :
                    Dist3(t, b) <= Dist3(step, ap) =>
                        /\ Delay3(t, b) <= Delay3(step, ap)
                        /\ Loss15(t, b) <= Loss15(step, ap)
              /\ Dist3(step, ap) = 0 =>
                    /\ Delay3(step, ap) = 3 * 5
                    /\ Loss15(step, ap) = 0
                    /\ ap_quality[ap] = Pts(95)
        /\ step = 15 => Dist3(step, 2) = 0

\* C19 witness: step 15 was taken, AP2 is at distance 0 and scores 95 with
\* 5 ms and 0 % on its link, while AP1 at distance 50 is held at 10 % loss
C19_Witness ==
    /\ script = "q11" /\ step = 15
    /\ Dist3(step, 2) = 0
    /\ ap_quality[2] = Pts(95)
    /\ applied[2] = [delay |-> 5, loss10 |-> 0]
    /\ applied[1] = [delay |-> 55, loss10 |-> 100]

\* a step of a sampling thread: one iteration of _monitor_loop of
\* ThroughputMonitor (q8) or of StreamingMonitor (q9)
SamplingStep ==
    \/ monitor_pc = "sample" /\ monitor_pc' = "check"
    \/ monitor.pc = "sample" /\ monitor'.pc = "check"
\* the simulation state the step loop owns: its position, the active AP and
\* the handover status, time and record
SamplingReadsOnly ==
    SamplingStep =>
        /\ UNCHANGED <<step, route, handover_events, handover_performed, handover_done>>
        /\ monitor'.handover_occurred = monitor.handover_occurred
        /\ monitor'.handover_time = monitor.handover_time
        /\ monitor'.handover_position = monitor.handover_position

\* C20: in the q8/q9 variants with a monitoring thread the step loop is the
\* only writer of the shared simulation state (position, active AP, handover
\* status and time); a step of the sampling thread only appends a snapshot
\* and never decides, sets or records a handover.
C20_Claim == [][SamplingReadsOnly]_vars

\* the stop flag is honoured: with running False the thread's test of the
\* flag leads out of the loop, a sample is appended only by the iteration
\* that was in progress, and a thread that has exited stays so
CooperativeStop ==
    /\ (~running /\ monitor_pc = "check") => monitor_pc' \in {"check", "exited"}
    /\ (~running /\ throughput_data' # throughput_data) =>
           /\ monitor_pc = "sample" /\ monitor_pc' = "check"
           /\ throughput_data' = throughput_data + 1
    /\ monitor_pc = "exited" =>
           (monitor_pc' = "exited" /\ throughput_data' = throughput_data)
    /\ running' => running
    /\ (~monitor.running /\ monitor.pc = "check") => monitor'.pc \in {"check", "exited"}
    /\ (~monitor.running /\ monitor'.metrics # monitor.metrics) =>
           /\ monitor.pc = "sample" /\ monitor'.pc = "check"
           /\ monitor'.metrics = monitor.metrics + 1
    /\ monitor.pc = "exited" => monitor' = monitor
    /\ monitor'.running => monitor.running
    \* the bounded join: stop_monitoring can return wherever the thread is
    /\ pc = "join" => ENABLED JoinReturns
    /\ (script = "q9" /\ pc = "collect" /\ now = MaxNow9) => ENABLED Q9Stop

\* C21: stopping the monitor is cooperative and bounded: after
\* stop_monitoring has set running to False the monitoring thread, which
\* tests the flag at the start of each iteration, completes at most the
\* iteration in progress (at most one more sample) and exits;
\* stop_monitoring returns whether or not the thread has exited.
C21_CooperativeStop == [][CooperativeStop]_vars

\* C21 witness: in q8/script2 the flag was cleared during an iteration, the
\* thread appended that iteration's sample and left the loop, and
\* stop_monitoring has returned
C21_Witness ==
    /\ script = "q8b" /\ pc = "done"
    /\ ~running /\ monitor_pc = "exited"
    /\ throughput_data = 2

\* the results file holds nothing the analysis can use: it is missing, empty
\* or unparseable
Unusable ==
    \/ script = "ana7" /\ results_file \in {"missing", "empty", "garbled"}
    \/ script \in {"vis8", "vis8b"}
         /\ results_file \in {"missing", "zero", "header", "garbled"}

\* C22 (as claimed): a results file that is missing, empty or unparseable is
\* treated as no data: the analysis (q7 analyze_results, q8
\* visualize_throughput) regenerates synthetic data and proceeds without
\* raising, and visualize_throughput calls itself again at most once.
C22_Claim ==
    (script \in {"ana7", "vis8", "vis8b"} /\ pc = "done") =>
        /\ analysis.retries <= 1
        /\ Unusable => analysis.regenerated

\* the challengers of active AP a in the order q11 tests them
FirstChallenger(a) == IF a = 1 THEN 2 ELSE 1
SecondChallenger(a) == IF a = 3 THEN 2 ELSE 3
\* a step of the q11 decision block: with both challengers more than 15 above
\* the active AP the first one tested is taken, whatever the other scores;
\* the active AP moves at most once and the log grows by that one move
FirstQualifyingWins ==
    Stepped11 =>
        /\ (/\ Exceeds15(ap_quality', current_ap, FirstChallenger(current_ap))
            /\ Exceeds15(ap_quality', current_ap, SecondChallenger(current_ap)))
              => current_ap' = FirstChallenger(current_ap)
        /\ handover_positions' =
              IF current_ap' = current_ap THEN handover_positions
              ELSE Append(handover_positions,
                          <<Position3(step'), current_ap, current_ap'>>)

\* C23: in q11, when several challengers exceed the active AP's score by more
\* than 15 at the same step, the first qualifying challenger in fixed
\* AP-number order is selected (active 1: AP2 before AP3; active 2: AP1
\* before AP3; active 3: AP1 before AP2), even when the other challenger has
\* the higher score, and the active AP changes at most once per step.
C23_FirstQualifying == [][FirstQualifyingWins]_vars

\* C23 witness: AP2 active at 50, AP1 at 65.01 and AP3 at 81 both qualify,
\* and the step went to AP1, the first tested
C23_Witness ==
    /\ script = "rule11" /\ step = 2
    /\ ap_quality = <<Cents(6501), Cents(5000), Cents(8100)>>
    /\ current_ap = 1
    /\ Len(handover_positions) = 2
    /\ handover_positions[2] = <<Position3(2), 2, 1>>

\* the handover log of q11 once step s has been executed
ExpectedLog11(s) ==
    IF s < 11 THEN <<>>
    ELSE IF s < 22 THEN <<<<Position3(11), 1, 2>>>>
    ELSE <<<<Position3(11), 1, 2>>, <<Position3(22), 2, 3>>>>

\* C24: a complete run of q11 (30 steps, position = step * 140 / 30, APs at
\* 20/70/120, score = 100 - delay - 5 * loss, margin 15, AP1 active at the
\* start) records exactly two handovers, AP1 -> AP2 at step 11 and
\* AP2 -> AP3 at step 22; the active AP number never decreases and AP3 is
\* never selected directly from AP1.
C24_TwoHandovers ==
    script = "q11" =>
        /\ handover_positions = ExpectedLog11(step)
        /\ current_ap = Len(handover_positions) + 1
        /\ pc = "done" => (step = total_steps /\ Len(handover_positions) = 2)

\* C24 witness: the run is complete, AP3 is active and the log holds the two
\* handovers at positions 51.3 and 102.7
C24_Witness ==
    /\ script = "q11" /\ pc = "done" /\ step = 30
    /\ current_ap = 3
    /\ handover_positions = <<<<154, 1, 2>>, <<308, 2, 3>>>>

\* a step of q10: the active AP moves from s1 to s2 or not at all, and what
\* the first handover set is left alone afterwards
OneWay10 ==
    script = "q10" =>
        /\ current_ap10' # current_ap10 => (current_ap10 = "s1" /\ current_ap10' = "s2")
        /\ current_ap10 = "s2" => current_ap10' = "s2"
        /\ handover_occurred =>
              (handover_occurred' /\ handover_step' = handover_step)
        /\ (~handover_occurred /\ handover_occurred') =>
              (current_ap10 = "s1" /\ current_ap10' = "s2" /\ handover_step' = step')

\* C25: in q10 the active AP only ever moves from s1 to s2: once current_ap
\* is s2 it stays s2 for the rest of the run, even at steps where AP1's
\* measured quality exceeds AP2's by more than 15, so at most one handover
\* occurs per run and handover_step is set at most once.
C25_OneWay == [][OneWay10]_vars

\* C25 witness: after the handover of step 1 a later step measured AP1 more
\* than 15 above AP2 and s2 is still active
C25_Witness ==
    /\ script = "q10" /\ step = 3
    /\ handover_occurred /\ handover_step = 1
    /\ current_ap10 = "s2"
    /\ raised10 = "none"
    /\ ap1_qual > ap2_qual + Pts(HYSTERESIS10)

\* C26 (as claimed): in each simulate_mobility variant (q7/script.py,
\* q8/script.py, q8/script2.py) at most one 'Handover from AP1 to AP2' line
\* is appended to handover_events.txt per run, whatever the outcome of the
\* 'ip route del default' / 'ip route add default' commands.
C26_Claim == script \in Family7 => Len(handover_events) <= 1

\* C27 (as claimed): in q10, whenever a handover occurred, the lookups
\* ap1_quality[handover_step] and ap2_quality[handover_step] made after the
\* loop refer to an existing list entry, the sample recorded during the
\* handover step, for every pattern of steps whose body raised an exception
\* and for every handover step 1..20.
C27_Claim ==
    (script = "q10" /\ pc = "done" /\ handover_occurred) =>
        /\ QualityAtHandover(metrics10, handover_step) # IndexError
        /\ QualityAtHandover(metrics10, handover_step).step = handover_step

\* once the join of stop_monitoring has returned in q8/script2, no step
\* appends a sample of the monitor thread
NoAppendAfterJoin ==
    (script = "q8b" /\ pc \in {"visualize", "done"}) =>
        /\ throughput_data' = throughput_data
        /\ ~(monitor_pc = "sample" /\ monitor_pc' = "check")

\* C28 (as claimed): in q8/script2, once stop_monitoring's join has returned,
\* the monitoring thread appends no further record to the throughput file:
\* no append by the monitor thread interleaves with or follows
\* _ensure_realistic_data's check and its possible rewrite of
\* throughput_data.txt and handover_events.txt.
C28_Claim == [][NoAppendAfterJoin]_vars

\* the maximal runs of consecutive numbers of S that hold at least 3 numbers
MaximalRuns(S) ==
    {r \in S \X S : /\ r[2] - r[1] >= 2
                    /\ \A n \in r[1]..r[2] : n \in S
                    /\ (r[1] - 1) \notin S
                    /\ (r[2] + 1) \notin S}

Range(s) == {s[k] : k \in 1..Len(s)}
\* what is left of the loop: two tests per list entry not yet passed
Remaining == 2 * (Len(lost_packets) - grouping.i) + (IF grouping.at = "outer" THEN 1 ELSE 0)

\* a step of the grouping loop brings it nearer to its end, a loop not yet
\* at its end can take a step, and at the end lost_regions holds the maximal
\* runs of at least 3 numbers, each once, in increasing order
GroupingCorrect ==
    script = "grp" =>
        /\ Remaining' < Remaining \/ (pc' = "done" /\ Remaining = 1)
        /\ Remaining' >= 0
        /\ pc = "loop" => ENABLED (GroupStart \/ GroupExtend)
        /\ pc' = "done" =>
              /\ Range(lost_regions') = MaximalRuns(Range(lost_packets))
              /\ Len(lost_regions') = Cardinality(MaximalRuns(Range(lost_packets)))
              /\ \A k \in 1..(Len(lost_regions') - 1) :
                    lost_regions'[k][2] < lost_regions'[k + 1][1]

\* C29: for any strictly increasing list of lost-packet sequence numbers the
\* grouping loop of q7/script2 create_visualization terminates and reports
\* exactly the maximal runs of consecutive sequence numbers that contain at
\* least 3 packets, each run once as (first, last), in increasing order, and
\* nothing else.
C29_Grouping == [][GroupingCorrect]_vars

\* C29 witness: of the lost packets 1 2 3, 5 6 the loop has reported the run
\* (1, 3) and not the pair (5, 6)
C29_Witness ==
    /\ script = "grp" /\ pc = "done"
    /\ lost_packets = <<1, 2, 3, 5, 6>>
    /\ lost_regions = <<<<1, 3>>>>

\* C30: in q8/script2, under every interleaving of record_event (main
\* thread, which sets handover_occurred and then handover_time) with
\* _generate_realistic_throughput (monitor thread), the monitor never
\* computes elapsed - handover_time while handover_time is still None, and
\* record_event is never executed before start_monitoring has set
\* start_time.
C30_NoNoneArithmetic ==
    script = "rec8b" =>
        /\ tm.time_since_handover # TypeError
        /\ tm.thread = "subtract" => tm.handover_time # None
        /\ tm.main # "TypeError"
        /\ tm.main \in {"written", "occurred", "recorded"} => tm.start_time # None

\* C30 witness: record_event has set handover_occurred and not yet
\* handover_time; the monitor thread read the flag as True and the time as
\* None, and took the estimate
C30_Witness ==
    /\ script = "rec8b"
    /\ tm.main = "occurred"
    /\ tm.handover_occurred /\ tm.handover_time = None
    /\ tm.read = <<TRUE, None>>
    /\ tm.thread = "default"

====
